---- MODULE Spec2Model ----
(***************************************************************************)
(* A model of the channel-backed counting semaphore of src/semaphore.go.    *)
(*                                                                         *)
(* type semaphore chan struct{}: the semaphore IS a Go channel.  Its state  *)
(* is the channel's state: the buffer size cap(sem), the number of         *)
(* buffered elements len(sem), and the goroutines blocked in a send on it  *)
(* (the callers suspended in Acquire's select).  Acquire is a two-case     *)
(* select (send on sem / receive on ctx.Done()), Release is a select with  *)
(* a default case (a non-blocking receive on sem).  A select commits to    *)
(* exactly one case, atomically with respect to every other operation on   *)
(* the channels it names.                                                  *)
(***************************************************************************)
EXTENDS Integers, Sequences, FiniteSets

\* ---- bounds of the model --------------------------------------------
NumProcs == 3      \* goroutines calling into the semaphore
MaxCap == 2        \* largest capacity passed to New
MaxCalls == 2      \* Acquire calls made, over all callers
MaxReleases == 2   \* channel receives attempted by Release, over all callers
MaxInvoke == 2     \* invocations of one returned ReleaseFunc

Procs == 1..NumProcs

VARIABLES
    capacity,   \* cap(sem)
    qcount,     \* len(sem): elements in the channel's buffer
    sendq,      \* goroutines blocked in Acquire's select, in order of arrival
    pc,         \* where each goroutine is
    chosen,     \* the select case the goroutine's current Acquire committed to
    expired,    \* whether ctx was already done when the last Acquire was called
    done,       \* whether ctx.Done() of the Acquire in progress is closed
    err,        \* the error the goroutine's last Acquire returned
    release,    \* the ReleaseFunc the goroutine's last Acquire returned
    calls,      \* Acquire calls made so far
    uses,       \* times the goroutine has invoked its current ReleaseFunc
    relOk,      \* Release calls that returned nil
    relEmpty    \* Release calls that returned errEmpty

vars == <<capacity, qcount, sendq, pc, chosen, expired, done, err, release, calls, uses,
          relOk, relEmpty>>

\* ---- helpers ---------------------------------------------------------
Range(s) == {s[i] : i \in 1..Len(s)}

Remove(s, p) == SelectSeq(s, LAMBDA x : x # p)

Capacity == capacity

Occupied == qcount

\* Faulty variant of SendReady: off by one, a full buffer still accepts.
SendReadyOffByOne == qcount <= capacity

\* Acquire's first select case can proceed: the buffer has room.  Release
\* never blocks in its receive, so no receiver ever waits on sem.
SendReady == qcount < capacity

\* Faulty variant of RecvReady: the default case is never taken.
RecvReadyAlways == TRUE

\* Release's receive case can proceed: an element is buffered or a sender
\* is blocked (the only way to receive from an unbuffered channel).
RecvReady == qcount > 0 \/ sendq # <<>>

\* The error Acquire returns for the case its select committed to.
ErrOf(c) == IF c = "send" THEN "nil" ELSE "errTimeout"

\* Faulty variant of FuncOf: every caller gets the no-op.
FuncOfNothing(c) == "nothing"

\* The ReleaseFunc Acquire returns for the case its select committed to.
FuncOf(c) == IF c = "send" THEN "releaser" ELSE "nothing"

TypeOK ==
    /\ capacity \in Nat
    /\ qcount \in Int
    /\ sendq \in Seq(Procs)
    /\ pc \in [Procs -> {"idle", "parked", "selected", "returned", "counted", "failed"}]
    /\ chosen \in [Procs -> {"none", "send", "done"}]
    /\ expired \in [Procs -> BOOLEAN]
    /\ done \in [Procs -> BOOLEAN]
    /\ err \in [Procs -> {"none", "nil", "errTimeout"}]
    /\ release \in [Procs -> {"none", "releaser", "nothing"}]
    /\ calls \in Nat
    /\ uses \in [Procs -> Nat]
    /\ relOk \in Nat
    /\ relEmpty \in Nat

\* ---- New --------------------------------------------------------------
New(c) ==
    /\ capacity = c
    /\ qcount = 0
    /\ sendq = <<>>
    /\ pc = [p \in Procs |-> "idle"]
    /\ chosen = [p \in Procs |-> "none"]
    /\ expired = [p \in Procs |-> FALSE]
    /\ done = [p \in Procs |-> FALSE]
    /\ err = [p \in Procs |-> "none"]
    /\ release = [p \in Procs |-> "none"]
    /\ calls = 0
    /\ uses = [p \in Procs |-> 0]
    /\ relOk = 0
    /\ relEmpty = 0

Init == \E c \in 0..MaxCap : New(c)

\* ---- Acquire ----------------------------------------------------------
\* Faulty variant of SelectSend: the caller waits although the buffer has room.
SelectSendWaits(p) ==
    /\ SendReady
    /\ qcount' = qcount
    /\ sendq' = Append(sendq, p)
    /\ chosen' = [chosen EXCEPT ![p] = "none"]
    /\ pc' = [pc EXCEPT ![p] = "parked"]

\* Faulty variant of SelectSend: the send commits but nothing is buffered.
SelectSendUncounted(p) ==
    /\ SendReady
    /\ qcount' = qcount
    /\ sendq' = sendq
    /\ chosen' = [chosen EXCEPT ![p] = "send"]
    /\ pc' = [pc EXCEPT ![p] = "selected"]

\* case sem <- struct{}{}: the send proceeds at once, the element is buffered.
SelectSend(p) ==
    /\ SendReady
    /\ qcount' = qcount + 1
    /\ sendq' = sendq
    /\ chosen' = [chosen EXCEPT ![p] = "send"]
    /\ pc' = [pc EXCEPT ![p] = "selected"]

\* Faulty variant of SelectDone: the cancelled call leaves an element behind.
SelectDoneTakesSlot(p, fired) ==
    /\ fired
    /\ qcount' = qcount + 1
    /\ sendq' = sendq
    /\ chosen' = [chosen EXCEPT ![p] = "done"]
    /\ pc' = [pc EXCEPT ![p] = "selected"]

\* case <-ctx.Done(): the context is already cancelled when select polls it.
SelectDone(p, fired) ==
    /\ fired
    /\ qcount' = qcount
    /\ sendq' = sendq
    /\ chosen' = [chosen EXCEPT ![p] = "done"]
    /\ pc' = [pc EXCEPT ![p] = "selected"]

\* Faulty variant of SelectPark: the context is not polled before blocking.
SelectParkBlind(p, fired) ==
    /\ ~SendReady
    /\ qcount' = qcount
    /\ sendq' = Append(sendq, p)
    /\ chosen' = [chosen EXCEPT ![p] = "none"]
    /\ pc' = [pc EXCEPT ![p] = "parked"]

\* No case can proceed: the goroutine blocks, queued as a sender on sem (and
\* as a receiver on ctx.Done()) until one of the two completes.
SelectPark(p, fired) ==
    /\ ~SendReady
    /\ ~fired
    /\ qcount' = qcount
    /\ sendq' = Append(sendq, p)
    /\ chosen' = [chosen EXCEPT ![p] = "none"]
    /\ pc' = [pc EXCEPT ![p] = "parked"]

\* A goroutine calls Acquire(ctx); fired says whether ctx is already done
\* (zero, negative or elapsed timeout, or cancel() before the call).  When
\* more than one case can proceed, select picks one of them at random.
Acquire(p, fired) ==
    /\ pc[p] \in {"idle", "returned"}
    /\ calls' = calls + 1
    /\ expired' = [expired EXCEPT ![p] = fired]
    /\ done' = [done EXCEPT ![p] = fired]
    /\ \/ SelectSend(p)
       \/ SelectDone(p, fired)
       \/ SelectPark(p, fired)
    /\ UNCHANGED <<capacity, err, release, uses, relOk, relEmpty>>

\* Faulty variant of Fire: the cancelled goroutine stays queued as a sender.
FireLeaveQueued(p) ==
    /\ pc[p] = "parked"
    /\ ~done[p]
    /\ done' = [done EXCEPT ![p] = TRUE]
    /\ chosen' = [chosen EXCEPT ![p] = "done"]
    /\ pc' = [pc EXCEPT ![p] = "selected"]
    /\ sendq' = sendq
    /\ UNCHANGED <<capacity, qcount, expired, err, release, calls, uses, relOk, relEmpty>>

\* Faulty variant of Fire: the context is done but the blocked select is
\* not woken.
FireUnnoticed(p) ==
    /\ pc[p] = "parked"
    /\ ~done[p]
    /\ done' = [done EXCEPT ![p] = TRUE]
    /\ UNCHANGED <<capacity, qcount, sendq, pc, chosen, expired, err, release, calls, uses,
                   relOk, relEmpty>>

\* The context of a goroutine blocked in Acquire's select is cancelled or
\* times out: ctx.Done() is closed, the goroutine is woken with the Done case
\* and is no longer a sender on sem.  (Once the select has committed to a
\* case the context is not read again, so only a blocked select observes it.)
Fire(p) ==
    /\ pc[p] = "parked"
    /\ ~done[p]
    /\ done' = [done EXCEPT ![p] = TRUE]
    /\ chosen' = [chosen EXCEPT ![p] = "done"]
    /\ pc' = [pc EXCEPT ![p] = "selected"]
    /\ sendq' = Remove(sendq, p)
    /\ UNCHANGED <<capacity, qcount, expired, err, release, calls, uses, relOk, relEmpty>>

\* Faulty variant of Return: a cancelled call reports success.
ReturnAlwaysNil(p) ==
    /\ pc[p] = "selected"
    /\ pc' = [pc EXCEPT ![p] = "returned"]
    /\ err' = [err EXCEPT ![p] = "nil"]
    /\ release' = [release EXCEPT ![p] = FuncOf(chosen[p])]
    /\ uses' = [uses EXCEPT ![p] = 0]
    /\ chosen' = [chosen EXCEPT ![p] = "none"]
    /\ done' = [done EXCEPT ![p] = FALSE]
    /\ UNCHANGED <<capacity, qcount, sendq, expired, calls, relOk, relEmpty>>

\* Acquire returns what the committed case says:
\* (releaser(sem), nil) or (nothing, errTimeout).
Return(p) ==
    /\ pc[p] = "selected"
    /\ pc' = [pc EXCEPT ![p] = "returned"]
    /\ err' = [err EXCEPT ![p] = ErrOf(chosen[p])]
    /\ release' = [release EXCEPT ![p] = FuncOf(chosen[p])]
    /\ uses' = [uses EXCEPT ![p] = 0]
    /\ chosen' = [chosen EXCEPT ![p] = "none"]
    /\ done' = [done EXCEPT ![p] = FALSE]
    /\ UNCHANGED <<capacity, qcount, sendq, expired, calls, relOk, relEmpty>>

\* ---- Release ----------------------------------------------------------
\* Faulty variant of RecvFromSender: a lost wakeup, the element is taken out
\* of the buffer and the blocked sender is left waiting.
RecvFromSenderNoWake ==
    /\ sendq # <<>>
    /\ qcount' = IF qcount > 0 THEN qcount - 1 ELSE 0
    /\ UNCHANGED <<sendq, chosen, pc>>

\* Variant of RecvFromSender with an order imposed: the sender that blocked
\* first proceeds.
RecvFromSenderFifo ==
    /\ sendq # <<>>
    /\ sendq' = Tail(sendq)
    /\ chosen' = [chosen EXCEPT ![Head(sendq)] = "send"]
    /\ pc' = [pc EXCEPT ![Head(sendq)] = "selected"]
    /\ qcount' = qcount

\* Faulty variant of RecvFromSender: the hand-over also shrinks the buffer.
RecvFromSenderShrinks ==
    /\ sendq # <<>>
    /\ \E s \in Range(sendq) :
          /\ sendq' = Remove(sendq, s)
          /\ chosen' = [chosen EXCEPT ![s] = "send"]
          /\ pc' = [pc EXCEPT ![s] = "selected"]
    /\ qcount' = qcount - 1

\* case <-sem with a sender blocked on sem: the receive completes that send.
\* On a full buffer the oldest element is taken and the sender's element is
\* buffered in its place; on an unbuffered channel the element passes hand
\* to hand.  len(sem) is the same before and after.  Go does not say which
\* of several blocked senders proceeds.
RecvFromSender ==
    /\ sendq # <<>>
    /\ \E s \in Range(sendq) :
          /\ sendq' = Remove(sendq, s)
          /\ chosen' = [chosen EXCEPT ![s] = "send"]
          /\ pc' = [pc EXCEPT ![s] = "selected"]
    /\ qcount' = qcount

\* Faulty variant of RecvFromBuffer: the receive drains the whole buffer.
RecvFromBufferDrains ==
    /\ sendq = <<>>
    /\ qcount' = 0
    /\ UNCHANGED <<sendq, chosen, pc>>

\* case <-sem with no sender blocked: a buffered element is taken.
RecvFromBuffer ==
    /\ sendq = <<>>
    /\ qcount' = qcount - 1
    /\ UNCHANGED <<sendq, chosen, pc>>

\* Faulty variant of ChanRelease: a lost update, the receive reports success
\* but the element stays in the buffer.
ChanReleaseLostUpdate ==
    IF RecvReady
    THEN /\ UNCHANGED <<qcount, sendq, chosen, pc>>
         /\ relOk' = relOk + 1
         /\ relEmpty' = relEmpty
    ELSE /\ UNCHANGED <<qcount, sendq, chosen, pc>>
         /\ relOk' = relOk
         /\ relEmpty' = relEmpty + 1

\* Faulty variant of ChanRelease: the receive prefers the buffer and leaves
\* the blocked senders waiting next to the freed place.
ChanReleaseBufferFirst ==
    IF RecvReady
    THEN /\ IF qcount > 0
            THEN qcount' = qcount - 1 /\ UNCHANGED <<sendq, chosen, pc>>
            ELSE RecvFromSender
         /\ relOk' = relOk + 1
         /\ relEmpty' = relEmpty
    ELSE /\ UNCHANGED <<qcount, sendq, chosen, pc>>
         /\ relOk' = relOk
         /\ relEmpty' = relEmpty + 1

\* The channel operation of sem.Release(): a select with a default case.
ChanRelease ==
    IF RecvReady
    THEN /\ RecvFromSender \/ RecvFromBuffer
         /\ relOk' = relOk + 1
         /\ relEmpty' = relEmpty
    ELSE /\ UNCHANGED <<qcount, sendq, chosen, pc>>
         /\ relOk' = relOk
         /\ relEmpty' = relEmpty + 1

\* Faulty variant of Release: the channel is replaced by a smaller one.
ReleaseResizes ==
    /\ ChanRelease
    /\ capacity' = IF capacity > qcount' /\ capacity > 0 THEN capacity - 1 ELSE capacity
    /\ UNCHANGED <<expired, done, err, release, calls, uses>>

\* Any caller calls sem.Release() directly.
Release ==
    /\ ChanRelease
    /\ UNCHANGED <<capacity, expired, done, err, release, calls, uses>>

\* ---- ReleaseFunc ------------------------------------------------------
\* releaser(sem): func() { _ = releaser.Release() }
InvokeReleaser(p) ==
    /\ release[p] = "releaser"
    /\ ChanRelease

\* Faulty variant of InvokeNothing: the capability of a cancelled call
\* releases like the one of a successful call.
InvokeNothingReleases(p) ==
    /\ release[p] = "nothing"
    /\ ChanRelease

\* nothing: func() {}
InvokeNothing(p) ==
    /\ release[p] = "nothing"
    /\ UNCHANGED <<qcount, sendq, chosen, pc, relOk, relEmpty>>

\* A goroutine invokes the ReleaseFunc its last Acquire returned.
Invoke(p) ==
    /\ pc[p] \in {"returned", "counted"}
    /\ uses' = [uses EXCEPT ![p] = @ + 1]
    /\ InvokeReleaser(p) \/ InvokeNothing(p)
    /\ UNCHANGED <<capacity, expired, done, err, release, calls>>

\* ---- the program: any callers, any interleaving ----------------------
\* The counters are capped so that the state space is finite.
Released == relOk + relEmpty

Next ==
    \/ \E p \in Procs : \E fired \in BOOLEAN : calls < MaxCalls /\ Acquire(p, fired)
    \/ \E p \in Procs : Fire(p)
    \/ \E p \in Procs : Return(p)
    \/ Released < MaxReleases /\ Release
    \/ \E p \in Procs :
          /\ uses[p] < MaxInvoke
          /\ release[p] = "releaser" => Released < MaxReleases
          /\ Invoke(p)

Spec == Init /\ [][Next]_vars

\* ---- more callers than slots, nobody releases -----------------------
\* Every goroutine calls Acquire once with a context that is not yet done;
\* the contexts of those that block time out later; Release is never called.
InitOverload == \E c \in 0..(NumProcs - 1) : New(c)

NextOverload ==
    \/ \E p \in Procs : pc[p] = "idle" /\ Acquire(p, FALSE)
    \/ \E p \in Procs : Fire(p)
    \/ \E p \in Procs : Return(p)

SpecOverload == InitOverload /\ [][NextOverload]_vars

\* ---- TestSemaphore_Concurrently --------------------------------------
\* sem.Capacity() goroutines; each calls Acquire(context.Background()), on
\* success adds 1 to counter and, when it returns, runs the deferred release().
Workers == 1..capacity

counter == Cardinality({p \in Procs : pc[p] = "counted"})

\* if err != nil { t.Errorf(...); return }; defer release(); atomic.AddInt32(&counter, 1)
WorkerCount(p) ==
    /\ pc[p] = "returned"
    /\ pc' = [pc EXCEPT ![p] = IF err[p] = "nil" THEN "counted" ELSE "failed"]
    /\ UNCHANGED <<capacity, qcount, sendq, chosen, expired, done, err, release,
                   calls, uses, relOk, relEmpty>>

InitWorkers == \E c \in 1..NumProcs : New(c)

NextWorkers ==
    \/ \E p \in Workers : pc[p] = "idle" /\ Acquire(p, FALSE)
    \/ \E p \in Workers : Return(p)
    \/ \E p \in Workers : WorkerCount(p)
    \/ \E p \in Workers : pc[p] = "counted" /\ uses[p] = 0 /\ Invoke(p)

SpecWorkers == InitWorkers /\ [][NextWorkers]_vars

\* ---- TestSemaphore_Occupied_Linearity, BenchmarkSemaphore_Acquire ----
\* Acquire(context.Background()) is called again and again, one call at a
\* time, and nothing is released.
NoCallRunning == \A q \in Procs : pc[q] \in {"idle", "returned"}

InitSequential == \E c \in 0..NumProcs : New(c)

NextSequential ==
    \/ \E p \in Procs : NoCallRunning /\ Acquire(p, FALSE)
    \/ \E p \in Procs : Return(p)

SpecSequential == InitSequential /\ [][NextSequential]_vars

\* ---- BenchmarkSemaphore_Acquire_Release ---------------------------------
\* Goroutines take their turn one after the other, nothing else running:
\* each calls Acquire(context.Background()) while a slot is free and then
\* either keeps the slot (like a worker before its deferred release) or gives
\* it back at once, through the returned ReleaseFunc or through sem.Release().
Started == {p \in Procs : pc[p] # "idle"}

\* p is the goroutine whose turn it is: the last one that started.
Current(p) == p \in Started /\ \A q \in Started : q <= p

\* p is the goroutine that starts next.
NextUp(p) == pc[p] = "idle" /\ \A q \in Procs : q < p => pc[q] # "idle"

\* Every Acquire made so far is either kept or already given back.
Quiescent == calls = counter + Released

InitRoundTrip == \E c \in 1..NumProcs : New(c)

NextRoundTrip ==
    \/ \E p \in Procs : NextUp(p) /\ Quiescent /\ Occupied < Capacity /\ Acquire(p, FALSE)
    \/ \E p \in Procs : Return(p)
    \/ \E p \in Procs : Current(p) /\ ~Quiescent /\ WorkerCount(p)
    \/ \E p \in Procs : Current(p) /\ ~Quiescent /\ Invoke(p)
    \/ \E p \in Procs : Current(p) /\ pc[p] = "returned" /\ ~Quiescent /\ Release

SpecRoundTrip == InitRoundTrip /\ [][NextRoundTrip]_vars

\* ---- concurrent Release calls, no Acquire meanwhile ------------------
\* Some callers take a free slot each; from the first Release on nobody
\* calls Acquire any more, and Release calls (direct, or through the
\* ReleaseFuncs the callers hold) are serviced in any order.
Min(a, b) == IF a < b THEN a ELSE b

InitDrain == \E c \in 0..NumProcs : New(c)

NextDrain ==
    \/ \E p \in Procs :
          pc[p] = "idle" /\ Released = 0 /\ Occupied < Capacity /\ Acquire(p, FALSE)
    \/ \E p \in Procs : Return(p)
    \/ Released < MaxReleases /\ Release
    \/ \E p \in Procs : uses[p] < MaxInvoke /\ Released < MaxReleases /\ Invoke(p)

SpecDrain == InitDrain /\ [][NextDrain]_vars

\* ---- one caller suspended on a full semaphore, then a Release ---------
\* Callers with contexts that never fire fill the semaphore, one more calls
\* Acquire and blocks, nobody else calls Acquire; Release is then called
\* (directly, or by a holder through its ReleaseFunc), and may be called
\* again later.  Every goroutine that can run does run eventually: a woken
\* Acquire returns.
WakeRelease == (sendq # <<>> /\ Released = 0) \/ (0 < Released /\ Released < MaxReleases)

InitWake == \E c \in 1..(NumProcs - 1) : New(c)

NextWake ==
    \/ \E p \in Procs : pc[p] = "idle" /\ calls <= capacity /\ Acquire(p, FALSE)
    \/ \E p \in Procs : Return(p)
    \/ WakeRelease /\ Release
    \/ \E p \in Procs : WakeRelease /\ uses[p] = 0 /\ Invoke(p)

SpecWake ==
    /\ InitWake
    /\ [][NextWake]_vars
    /\ \A p \in Procs : WF_vars(Return(p))

\* ---- every context eventually done ------------------------------------
\* Any capacity; the goroutines call Acquire one after the other, each with a context that is
\* done already or not, while Release is called at any moment.
\* Every context given to a blocked Acquire is cancelled or times out after
\* a while, and a goroutine whose select has committed runs on to its return.
NextSignals ==
    \/ \E p \in Procs : \E fired \in BOOLEAN : NextUp(p) /\ Acquire(p, fired)
    \/ \E p \in Procs : Fire(p)
    \/ \E p \in Procs : Return(p)
    \/ Released < MaxReleases /\ Release

SpecSignals ==
    /\ Init
    /\ [][NextSignals]_vars
    /\ \A p \in Procs : WF_vars(Fire(p)) /\ WF_vars(Return(p))

\* ---- one Acquire call per goroutine -----------------------------------
\* Any capacity; each goroutine calls Acquire at most once, in any order and
\* with any context, so the calls that returned nil can be counted from the
\* callers' results; Release and the ReleaseFuncs are called at any moment.
Succeeded == {p \in Procs : pc[p] \in {"returned", "counted"} /\ err[p] = "nil"}

\* Calls whose select has completed the send and which have not returned yet.
Committed == {p \in Procs : pc[p] = "selected" /\ chosen[p] = "send"}

NextOnce ==
    \/ \E p \in Procs : \E fired \in BOOLEAN : pc[p] = "idle" /\ Acquire(p, fired)
    \/ \E p \in Procs : Fire(p)
    \/ \E p \in Procs : Return(p)
    \/ Released < MaxReleases /\ Release
    \/ \E p \in Procs : uses[p] = 0 /\ Released < MaxReleases /\ Invoke(p)

SpecOnce == Init /\ [][NextOnce]_vars

\* ======================================================================
\* Properties
\* ======================================================================

\* The goroutines whose last Acquire committed to the send, i.e. took a slot.
Granted ==
    {p \in Procs : chosen[p] = "send" \/ (pc[p] \in {"returned", "counted"} /\ err[p] = "nil")}

\* This step is goroutine p calling Acquire with a context that is (f = TRUE)
\* or is not (f = FALSE) already done.
CalledWith(p, f) ==
    /\ pc[p] \in {"idle", "returned"}
    /\ pc'[p] \in {"selected", "parked"}
    /\ expired'[p] = f

\* This step is goroutine p's Acquire returning.
Returns(p) == pc[p] = "selected" /\ pc'[p] = "returned"

\* This step is one Release call being serviced (direct or through a ReleaseFunc).
ReleaseServiced == relOk' + relEmpty' = relOk + relEmpty + 1

\* C1: in every reachable state, whatever the interleaving of Acquire,
\* Release, ReleaseFunc invocations and cancellations and whatever the
\* capacity, 0 <= Occupied() <= Capacity().
C1_OccupancyBounds == 0 <= Occupied /\ Occupied <= Capacity

\* A full semaphore with a caller suspended on it, after a Release call.
C1_Witness ==
    /\ capacity > 0
    /\ Occupied = Capacity
    /\ sendq # <<>>
    /\ Released > 0

\* C2: an Acquire that returns errTimeout has not taken a slot, and an
\* Acquire that took a slot returns nil.  Step by step: the step that commits
\* a call to the Done case leaves len(sem) alone; a call committed to one
\* case never changes to the other; only a call committing to the send raises
\* len(sem), by exactly one; Acquire returns errTimeout exactly for the Done
\* case and nil exactly for the send; and only blocked calls are queued as
\* senders.
C2_CancelledHoldsNoSlot ==
    [][/\ \A p \in Procs :
            /\ (chosen[p] # "done" /\ chosen'[p] = "done") => qcount' = qcount
            /\ chosen[p] = "done" => chosen'[p] # "send"
            /\ chosen[p] = "send" => chosen'[p] # "done"
            /\ Returns(p) =>
                  /\ (err'[p] = "errTimeout") <=> (chosen[p] = "done")
                  /\ (err'[p] = "nil") <=> (chosen[p] = "send")
       /\ qcount' > qcount =>
            /\ qcount' = qcount + 1
            /\ \E p \in Procs : chosen[p] # "send" /\ chosen'[p] = "send"
       /\ \A p \in Range(sendq') : pc'[p] = "parked" /\ chosen'[p] = "none"
      ]_vars

\* A caller whose context fired while it was suspended has returned
\* errTimeout, and a Release has since freed a slot that it did not get.
C2_Witness ==
    \E p \in Procs :
        /\ pc[p] = "returned"
        /\ err[p] = "errTimeout"
        /\ ~expired[p]
        /\ relOk > 0
        /\ qcount < capacity

\* C3: on a semaphore of capacity 0 no Acquire ever succeeds, also when
\* Release is called while an Acquire is suspended.
C3_ZeroCapacityNeverGrants ==
    capacity = 0 => \A p \in Procs : chosen[p] # "send" /\ err[p] # "nil"

\* C4: a Release serviced while occupied = 0 returns errEmpty and changes
\* nothing (no suspended Acquire is completed by it); a Release serviced
\* while occupied > 0 returns nil and lowers occupancy by exactly 1.
C4_ReleaseByOccupancy ==
    [][ReleaseServiced =>
          IF Occupied = 0
          THEN /\ relEmpty' = relEmpty + 1
               /\ qcount' = 0
               /\ UNCHANGED <<sendq, pc, chosen>>
          ELSE /\ relOk' = relOk + 1
               /\ qcount' = qcount - 1
      ]_vars

\* C5: with more concurrent Acquire calls than slots and no Release, never
\* more than Capacity() calls are granted and every granted call is counted;
\* a call that is not granted stays suspended until its context fires and is
\* then cancelled; once every call is made exactly Capacity() are granted;
\* once all have returned, Capacity() returned nil, the others errTimeout,
\* and occupancy equals Capacity().
C5_NoOverGrant ==
    /\ Cardinality(Granted) <= capacity
    /\ qcount = Cardinality(Granted)
    /\ \A p \in Procs \ Granted :
          \/ pc[p] = "idle"
          \/ pc[p] = "parked" /\ ~done[p]
          \/ pc[p] = "selected" /\ chosen[p] = "done" /\ done[p]
          \/ pc[p] = "returned" /\ err[p] = "errTimeout"
    /\ (\A p \in Procs : pc[p] # "idle") => Cardinality(Granted) = capacity
    /\ (\A p \in Procs : pc[p] = "returned") =>
          /\ Cardinality({p \in Procs : err[p] = "nil"}) = capacity
          /\ Cardinality({p \in Procs : err[p] = "errTimeout"}) = NumProcs - capacity
          /\ Occupied = Capacity

\* Every call has returned, some with a slot and some cancelled.
C5_Witness ==
    /\ capacity > 0
    /\ \A p \in Procs : pc[p] = "returned"
    /\ \E p \in Procs : err[p] = "errTimeout"

\* C6: Capacity() workers, contexts that never fire, one release() each: no
\* Acquire suspends or fails, no release finds the semaphore empty, and once
\* every worker has finished counter = Capacity() and Occupied() = 0.
C6_WorkersAllSucceed ==
    /\ \A p \in Procs : pc[p] \notin {"parked", "failed"} /\ err[p] # "errTimeout"
    /\ \A p \in Procs : pc[p] = "selected" => chosen[p] = "send"
    /\ relEmpty = 0
    /\ (\A p \in Workers : pc[p] = "counted" /\ uses[p] = 1) =>
          /\ counter = Capacity
          /\ Occupied = 0

\* All NumProcs workers of a semaphore of capacity NumProcs have finished.
C6_Witness ==
    /\ capacity = NumProcs
    /\ \A p \in Workers : pc[p] = "counted" /\ uses[p] = 1

\* C7 as claimed: an Acquire called with a context that is already done
\* never takes a slot and returns errTimeout, also when a slot is free.
C7_ExpiredNeverGranted ==
    \A p \in Procs :
        expired[p] =>
            /\ pc[p] # "parked"
            /\ chosen[p] # "send"
            /\ pc[p] = "returned" => err[p] = "errTimeout"

\* C7 as amended: an Acquire called with a context that is already done
\* never suspends.  With no free slot it commits to the Done case and takes
\* nothing; with a free slot it commits either to the Done case, taking
\* nothing, or to the send, taking exactly one slot; it returns errTimeout
\* in the first case and nil in the second.
C7_ExpiredNeverBlocks ==
    [][\A p \in Procs :
          /\ CalledWith(p, TRUE) =>
                /\ pc'[p] = "selected"
                /\ IF Occupied < Capacity
                   THEN \/ chosen'[p] = "done" /\ qcount' = qcount
                        \/ chosen'[p] = "send" /\ qcount' = qcount + 1
                   ELSE chosen'[p] = "done" /\ qcount' = qcount
          /\ (expired[p] /\ Returns(p)) =>
                err'[p] = (IF chosen[p] = "done" THEN "errTimeout" ELSE "nil")
          /\ expired'[p] => pc'[p] # "parked"
      ]_vars

\* A call made with a done context was cancelled although a slot was free
\* (nothing was released, so the slot was free when the call was made).
C7_Witness ==
    \E p \in Procs :
        /\ expired[p]
        /\ pc[p] = "selected"
        /\ chosen[p] = "done"
        /\ Occupied < Capacity
        /\ Released = 0

\* C8: on a semaphore of capacity 0 every Acquire called with a context
\* that is already done is cancelled: it commits to the Done case, returns
\* errTimeout and the no-op ReleaseFunc, and Occupied() is 0 throughout,
\* whatever else is released or invoked.
C8_ZeroCapacityExpired ==
    capacity = 0 =>
        /\ Occupied = 0
        /\ \A p \in Procs :
              expired[p] =>
                  \/ pc[p] = "selected" /\ chosen[p] = "done"
                  \/ pc[p] = "returned" /\ err[p] = "errTimeout" /\ release[p] = "nothing"

\* Capacity 0: such a call has returned, its ReleaseFunc was invoked and a
\* Release call was serviced.
C8_Witness ==
    /\ capacity = 0
    /\ Released > 0
    /\ \E p \in Procs : expired[p] /\ pc[p] = "returned" /\ uses[p] > 0

\* C9 as claimed: the second and every later invocation of a ReleaseFunc
\* returned by a successful Acquire is a no-op.
C9_SecondInvokeNoOp ==
    [][\A p \in Procs :
          (release[p] = "releaser" /\ uses[p] >= 1 /\ uses'[p] = uses[p] + 1) =>
              UNCHANGED <<qcount, sendq, pc, chosen>>
      ]_vars

\* C9 as amended: every invocation of a ReleaseFunc returned by a successful
\* Acquire, the first like any later one, is one Release call: it completes
\* one suspended Acquire if there is one (occupancy unchanged), else takes
\* one element out if occupied > 0, whoever holds it, and changes nothing
\* only when occupied = 0 and nobody is suspended.  Occupancy never becomes
\* negative.
C9_InvokeIsRelease ==
    [][\A p \in Procs :
          (release[p] = "releaser" /\ uses'[p] = uses[p] + 1) =>
              /\ qcount' >= 0
              /\ ReleaseServiced
              /\ IF sendq # <<>>
                 THEN /\ qcount' = qcount
                      /\ Len(sendq') = Len(sendq) - 1
                      /\ \E s \in Range(sendq) : chosen'[s] = "send"
                 ELSE IF qcount > 0
                      THEN qcount' = qcount - 1 /\ UNCHANGED <<sendq, pc, chosen>>
                      ELSE UNCHANGED <<qcount, sendq, pc, chosen>>
      ]_vars

\* One caller has invoked its releaser twice and both calls took a slot out,
\* while another successful caller has not released: its slot is gone.
C9_Witness ==
    \E p, q \in Procs :
        /\ p # q
        /\ release[p] = "releaser" /\ uses[p] = 2
        /\ relOk = 2
        /\ pc[q] = "returned" /\ err[q] = "nil" /\ uses[q] = 0
        /\ Occupied = 0

\* C10: from an empty semaphore of capacity N, with one Acquire at a time,
\* contexts that never fire and no Release: after i <= N calls Occupied()
\* is i and every call is granted and returns nil; the (N+1)-th call
\* suspends, with Occupied() = N, and stays suspended.
C10_LinearFill ==
    /\ calls <= capacity + 1
    /\ \A p \in Procs : err[p] # "errTimeout" /\ chosen[p] # "done"
    /\ calls <= capacity =>
          /\ Occupied = calls
          /\ \A p \in Procs : pc[p] # "parked"
    /\ calls = capacity + 1 =>
          /\ Occupied = Capacity
          /\ Cardinality({p \in Procs : pc[p] = "parked"}) = 1

\* NumProcs calls have filled a semaphore of that capacity and the next one
\* is suspended.
C10_Witness ==
    /\ capacity = NumProcs
    /\ calls = capacity + 1
    /\ \E p \in Procs : pc[p] = "parked"

\* C11: with nothing else interleaved, a successful Acquire followed by one
\* invocation of the returned ReleaseFunc, or by one Release call, puts
\* Occupied() back to what it was before the Acquire (the number of slots
\* kept by earlier callers), for every capacity and every starting occupancy
\* below capacity; in between Occupied() is one higher, and neither call
\* fails or suspends.
C11_RoundTrip ==
    /\ Quiescent => Occupied = counter
    /\ ~Quiescent => Occupied = counter + 1
    /\ relEmpty = 0
    /\ \A p \in Procs : pc[p] \notin {"parked", "failed"} /\ err[p] # "errTimeout"

\* Starting from occupancy 1, one round trip through the ReleaseFunc and one
\* through Release are complete.
C11_Witness ==
    /\ Quiescent
    /\ counter = 1
    /\ relOk = 2
    /\ \E p \in Procs : uses[p] = 1
    /\ \E p \in Procs : pc[p] = "returned" /\ uses[p] = 0

\* C12: with m slots occupied (m = the Acquire calls made, all granted) and
\* no Acquire meanwhile, of R Release calls serviced so far exactly
\* min(R, m) returned nil and the others errEmpty, and occupancy went down
\* by one per nil; so two Release calls never both succeed on one occupied
\* slot.
C12_ReleasesSerialized ==
    /\ relOk = Min(Released, calls)
    /\ relEmpty = Released - Min(Released, calls)
    /\ Occupied = calls - relOk

\* One slot was occupied and two Release calls were serviced: one returned
\* nil, the other errEmpty.
C12_Witness ==
    /\ calls = 1
    /\ relOk = 1
    /\ relEmpty = 1

\* C13: only Acquire suspends, and only when no slot is free.  Release and
\* the invocation of a returned ReleaseFunc can be serviced in every state
\* (Capacity and Occupied are plain reads of cap(sem) and len(sem)); a caller
\* becomes suspended only by calling Acquire, with a context not yet done,
\* while Occupied() = Capacity(); and an Acquire called with such a context
\* while Occupied() < Capacity() commits to the send at once, takes one slot
\* and returns (releaser, nil).
C13_OnlyAcquireSuspends ==
    /\ [](/\ ENABLED Release
          /\ \A p \in Procs : pc[p] = "returned" => ENABLED Invoke(p))
    /\ [][\A p \in Procs :
            /\ (pc'[p] = "parked" /\ pc[p] # "parked") =>
                  CalledWith(p, FALSE) /\ Occupied = Capacity
            /\ (CalledWith(p, FALSE) /\ Occupied < Capacity) =>
                  /\ pc'[p] = "selected"
                  /\ chosen'[p] = "send"
                  /\ qcount' = qcount + 1
            /\ (Returns(p) /\ chosen[p] = "send") =>
                  err'[p] = "nil" /\ release'[p] = "releaser"
        ]_vars

\* One caller found a free slot and has returned nil; another found the
\* semaphore full and is suspended.
C13_Witness ==
    /\ capacity > 0
    /\ Occupied = Capacity
    /\ \E p, q \in Procs :
          /\ pc[p] = "returned" /\ err[p] = "nil" /\ ~expired[p]
          /\ pc[q] = "parked"

\* C14: no step of any caller changes what Capacity() returns: cap(sem)
\* stays what New was given, through every Acquire, Release, ReleaseFunc
\* invocation and cancellation.
C14_CapacityImmutable == [][Capacity' = Capacity]_vars

\* Every kind of operation has run: all Acquire and Release calls of the
\* run are made, a call was cancelled and a ReleaseFunc was invoked.
C14_Witness ==
    /\ calls = MaxCalls
    /\ Released = MaxReleases
    /\ \E p \in Procs : err[p] = "errTimeout"
    /\ \E p \in Procs : uses[p] > 0

\* C15: when one Acquire is suspended on a full semaphore with a context
\* that never fires and a Release succeeds, that Release hands the freed
\* slot to the suspended Acquire in the same step (Occupied() unchanged), and
\* the Acquire eventually returns nil.
C15_ReleaseWakesWaiter ==
    /\ [][\A p \in Procs :
            (pc[p] = "parked" /\ ReleaseServiced) =>
                /\ relOk' = relOk + 1
                /\ pc'[p] = "selected"
                /\ chosen'[p] = "send"
                /\ qcount' = qcount
        ]_vars
    /\ \A p \in Procs :
          (pc[p] = "selected" /\ chosen[p] = "send" /\ relOk > 0)
              ~> (pc[p] = "returned" /\ err[p] = "nil" /\ release[p] = "releaser")

\* The suspended caller was handed the slot by a Release and has returned.
C15_Witness ==
    /\ calls = capacity + 1
    /\ relOk = 1
    /\ Occupied = Capacity
    /\ \A p \in Procs : pc[p] # "idle" => pc[p] = "returned" /\ err[p] = "nil"

\* C16: an Acquire call whose context becomes done returns, with nil or with
\* errTimeout, whatever the capacity and the other callers; no call is still
\* blocked in its select once its context is done.
C16_FiredAcquireReturns ==
    /\ [](\A p \in Procs : ~(pc[p] = "parked" /\ done[p]))
    /\ \A p \in Procs :
          (pc[p] \in {"parked", "selected"})
              ~> (pc[p] = "returned" /\ err[p] \in {"nil", "errTimeout"})

\* A call made with a live context has returned errTimeout: it blocked, its
\* context became done, and it returned.
C16_Witness ==
    \E p \in Procs :
        /\ pc[p] = "returned"
        /\ ~expired[p]
        /\ err[p] = "errTimeout"
        /\ release[p] = "nothing"

\* C17: the ReleaseFunc returned together with errTimeout is nothing, and
\* invoking it, the first time or again, changes neither the occupancy nor
\* any caller's state and is no Release call: nobody's slot is taken, also
\* when occupied > 0.
C17_NothingIsNoOp ==
    /\ [](\A p \in Procs :
             (pc[p] = "returned" /\ err[p] = "errTimeout") => release[p] = "nothing")
    /\ [][\A p \in Procs :
             (pc[p] = "returned" /\ err[p] = "errTimeout" /\ uses'[p] = uses[p] + 1) =>
                 /\ Occupied' = Occupied
                 /\ UNCHANGED <<capacity, sendq, pc, chosen, err, release, relOk, relEmpty>>
       ]_vars

\* A cancelled caller has invoked its ReleaseFunc twice while another caller
\* holds a slot; no Release call was counted and the slot is still held.
C17_Witness ==
    \E p, q \in Procs :
        /\ pc[p] = "returned" /\ err[p] = "errTimeout" /\ uses[p] = 2
        /\ pc[q] = "returned" /\ err[q] = "nil" /\ uses[q] = 0
        /\ Occupied = 1
        /\ Released = 0

C19_NoLostWakeup ==
    /\ [](\A p \in Procs : (pc[p] = "parked" /\ ~done[p]) => Occupied = Capacity)
    /\ [][(sendq # <<>> /\ ReleaseServiced) =>
             /\ relOk' = relOk + 1
             /\ \E s \in Range(sendq) :
                   /\ pc'[s] = "selected"
                   /\ chosen'[s] = "send"
                   /\ sendq' = Remove(sendq, s)
             /\ Occupied' = Occupied
             /\ Occupied' = Capacity
       ]_vars

\* Capacity at least 1 and one Release served: a call has completed its send
\* and another one is still blocked, on a semaphore that is full.
C19_Witness ==
    /\ Capacity >= 1
    /\ relOk = 1
    /\ Cardinality(Committed) = 1
    /\ Len(sendq) = 1
    /\ Occupied = Capacity

\* The call that blocked last is handed the slot by a Release while the call
\* that blocked first stays blocked.
LastWaiterWins ==
    /\ Release
    /\ pc'[sendq[Len(sendq)]] = "selected"
    /\ chosen'[sendq[Len(sendq)]] = "send"
    /\ pc'[Head(sendq)] = "parked"

====
